---- MODULE Spec2Model ----
(***************************************************************************)
(* Job queue and per-project workers of claudecodeui.                      *)
(*                                                                         *)
(*   jobDb      (server/database/db.js)  : the jobs table and its queries  *)
(*   JobWorker  (server/projects.js)     : scheduler, project workers      *)
(*   spawnClaude (server/claude-cli.js)  : one external process per job    *)
(*                                                                         *)
(* Node runs every callback to completion and better-sqlite3 is            *)
(* synchronous, so one action is one callback: a timer firing, a           *)
(* setImmediate callback, a process exit with the promise reactions that   *)
(* follow it, or one call made by the host (addJob, start, stop).          *)
(***************************************************************************)
EXTENDS Integers, Sequences, FiniteSets, TLC

(* ---------------------------------------------------------------- bounds *)
MaxJobs == 2          \* rows ever inserted into the jobs table
MaxClock == 1         \* the clock stops here
MaxCrashes == 1       \* server crash + restart
StoreMaxJobs == 2     \* rows ever inserted, when the store is driven alone
StoreMaxClock == 1    \* the clock stops here, when the store is driven alone

(* ------------------------------------------------------ program constants *)
\* One clock tick is 31 minutes: two callbacks in the same tick are less than
\* 30 minutes apart, two callbacks one tick apart more. The 30 * 60 * 1000 ms of
\* recoverStuckJobs are 0 whole ticks.
StuckThreshold == 0
\* LIMIT 100 of cleanupOldJobs, scaled to the jobs of the model
RetentionLimit == 1
\* this.maxConcurrentProjects is 10 after construction and an operational knob;
\* the model runs the scheduler with the cap at 1 and at 2 of its two projects
DefaultCap == 2
LowCap == 1

Projects == {1, 2}                \* project_name, ordered as SQL orders them
NoSession == "null"               \* session_id IS NULL
Sessions == {NoSession, "s1"}
Priorities == {0}                 \* addJob's default priority
StorePriorities == {0, 1}         \* priorities, when the store is driven alone
NoTime == -1                      \* started_at / completed_at IS NULL
NoJob == 0                        \* null job / null promise
NoProject == 0                    \* no projectName: cleanupOldJobs(), jobs-update
\* no query has been answered yet
NoAnswer == [op |-> "none", jobs |-> {}, projects |-> {}, totalWorkers |-> 0]

NoError == "null"                 \* error_message IS NULL
RecoveryMessage == "Job timeout - marked for recovery"
ExitMessage == "Claude CLI exited with code 1"

VARIABLES
    jobs,             \* the jobs table: id -> row
    nextId,           \* AUTOINCREMENT sequence of the jobs table
    clock,            \* Date.now() / CURRENT_TIMESTAMP
    projectWorkers,   \* this.projectWorkers: projectName -> worker state
    isShuttingDown,   \* this.isShuttingDown
    started,          \* start() has been called on this instance
    pollTimer,        \* this.pollTimer is armed
    cleanupInterval,  \* this.cleanupInterval is armed
    recoveryInterval, \* this.recoveryInterval is armed
    immediates,       \* callbacks queued with setImmediate, in order
    execs,            \* executeJob promises still pending (one process each)
    shutdownState,    \* the promise stop() returned: none, pending, resolved
    shutdownWaits,    \* the promises that Promise.all of stop() still awaits
    crashes,          \* crashes so far
    maxConcurrentProjects, \* this.maxConcurrentProjects
    emitted,          \* the events the last callback emitted, in order
    procs,            \* the runs of spawnClaude: run -> state of its closure
    nextRun,          \* the number the next run of spawnClaude gets
    registry,         \* activeClaudeProcesses: key -> run
    abortReturned,    \* what the last abortClaudeSession call returned
    storeFaults,      \* store operations that have thrown so far
    thrown,           \* errors that have propagated to a caller of JobWorker
    partial,          \* run -> the line whose first part a 'data' chunk ended with
    artifacts,        \* run -> what is left of its temporary image directory
    returned,         \* what the last query of the host returned
    options,          \* job -> the options submitted and the text stored for them
    listed            \* the rows the last getActiveJobs call returned, in order

vars == <<jobs, nextId, clock, projectWorkers, isShuttingDown, started, pollTimer,
          cleanupInterval, recoveryInterval, immediates, execs, shutdownState,
          shutdownWaits, crashes, maxConcurrentProjects, emitted,
          procs, nextRun, registry, abortReturned, storeFaults, thrown,
          partial, artifacts, returned, options, listed>>

\* the state of claude-cli.js
adapterVars == <<procs, nextRun, registry, abortReturned>>

\* the store faults injected and the errors callers have seen
faultVars == <<storeFaults, thrown>>

\* the pipes and temporary files of the child processes, and the last answer
\* to a query of the host
hostVars == <<partial, artifacts, returned, options, listed>>

Ids == DOMAIN jobs

(* ------------------------------------------------------------------ jobDb *)

\* an insert whose row does not take the column default of status
addJobRowRunning(js, id, p, s, prio, now) ==
    [i \in (DOMAIN js) \cup {id} |->
        IF i = id
        THEN [project |-> p, session |-> s, status |-> "running", priority |-> prio,
              createdAt |-> now, startedAt |-> NoTime, completedAt |-> NoTime,
              errorMessage |-> NoError]
        ELSE js[i]]

\* INSERT INTO jobs (...): status defaults to pending, created_at to now
addJobRow(js, id, p, s, prio, now) ==
    [i \in (DOMAIN js) \cup {id} |->
        IF i = id
        THEN [project |-> p, session |-> s, status |-> "pending", priority |-> prio,
              createdAt |-> now, startedAt |-> NoTime, completedAt |-> NoTime,
              errorMessage |-> NoError]
        ELSE js[i]]

\* the session ids running in the project (first query of getNextJobForProject)
runningSessions(js, p) ==
    {js[i].session : i \in {k \in DOMAIN js : /\ js[k].project = p
                                              /\ js[k].status = "running"
                                              /\ js[k].session # NoSession}}

\* the second query without the session condition
candidatesUnfiltered(js, p) ==
    {i \in DOMAIN js : js[i].project = p /\ js[i].status \in {"pending", "failed"}}

\* WHERE clause of the second query, in its two forms
candidates(js, p) ==
    IF runningSessions(js, p) # {}
    THEN {i \in DOMAIN js : /\ js[i].project = p
                            /\ js[i].status \in {"pending", "failed"}
                            /\ (js[i].session = NoSession
                                \/ js[i].session \notin runningSessions(js, p))}
    ELSE {i \in DOMAIN js : /\ js[i].project = p
                            /\ js[i].status \in {"pending", "failed"}}

\* statusRank without the CASE: pending and failed rows rank alike
statusRankIgnored(row) == 0

\* CASE WHEN status = 'pending' THEN 0 ELSE 1 END
statusRank(row) == IF row.status = "pending" THEN 0 ELSE 1

\* sortsBefore with the priority order reversed: ORDER BY ..., priority ASC, ...
sortsBeforePriorityAscending(a, b) ==
    \/ statusRank(a) < statusRank(b)
    \/ /\ statusRank(a) = statusRank(b)
       /\ a.priority < b.priority
    \/ /\ statusRank(a) = statusRank(b)
       /\ a.priority = b.priority
       /\ a.createdAt < b.createdAt

\* ORDER BY CASE ..., priority DESC, created_at ASC: a sorts strictly before b
sortsBefore(a, b) ==
    \/ statusRank(a) < statusRank(b)
    \/ /\ statusRank(a) = statusRank(b)
       /\ a.priority > b.priority
    \/ /\ statusRank(a) = statusRank(b)
       /\ a.priority = b.priority
       /\ a.createdAt < b.createdAt

\* LIMIT 1: the rows no candidate sorts before. SQL leaves the order of rows
\* with equal sort keys open, so each of them may be the one returned;
\* {NoJob} stands for null.
getNextJobForProject(js, p) ==
    LET c == candidates(js, p) IN
    IF c = {} THEN {NoJob}
    ELSE {i \in c : \A k \in c : ~sortsBefore(js[k], js[i])}

\* an UPDATE that always binds error_message, NULL included
updateJobStatusBindsNull(js, id, status, errorMessage, now) ==
    IF id \notin DOMAIN js THEN js
    ELSE LET r1 == [js[id] EXCEPT !.status = status, !.errorMessage = errorMessage]
         IN [js EXCEPT ![id] =
                IF status = "running" THEN [r1 EXCEPT !.startedAt = now]
                ELSE IF status \in {"completed", "failed"}
                     THEN [r1 EXCEPT !.completedAt = now]
                     ELSE r1]

\* UPDATE jobs SET status = ?, [started_at | completed_at] = now [, error_message = ?]
\* WHERE id = ?   (no row with that id: nothing changes)
updateJobStatus(js, id, status, errorMessage, now) ==
    IF id \notin DOMAIN js THEN js
    ELSE LET r1 == [js[id] EXCEPT !.status = status]
             r2 == IF status = "running" THEN [r1 EXCEPT !.startedAt = now]
                   ELSE IF status \in {"completed", "failed"}
                        THEN [r1 EXCEPT !.completedAt = now]
                        ELSE r1
             r3 == IF errorMessage # NoError THEN [r2 EXCEPT !.errorMessage = errorMessage]
                   ELSE r2
         IN [js EXCEPT ![id] = r3]

\* getActiveJobs with WHERE status = 'pending'
getActiveJobsPendingOnly(js) == {i \in DOMAIN js : js[i].status = "pending"}

\* SELECT * FROM jobs WHERE status IN ('pending', 'running')
getActiveJobs(js) == {i \in DOMAIN js : js[i].status \in {"pending", "running"}}

\* the completed/failed rows of a project
terminalOf(js, p) ==
    {i \in DOMAIN js : js[i].project = p /\ js[i].status \in {"completed", "failed"}}

\* keptSets with ORDER BY completed_at ASC
keptSetsOldest(js, p) ==
    LET t == terminalOf(js, p) IN
    IF Cardinality(t) <= RetentionLimit THEN {t}
    ELSE {k \in SUBSET t : /\ Cardinality(k) = RetentionLimit
                           /\ \A a \in k, b \in t \ k :
                                 js[a].completedAt <= js[b].completedAt}

\* SELECT id ... ORDER BY completed_at DESC LIMIT 100: the possible results
\* (rows with equal completed_at may come in either order)
keptSets(js, p) ==
    LET t == terminalOf(js, p) IN
    IF Cardinality(t) <= RetentionLimit THEN {t}
    ELSE {k \in SUBSET t : /\ Cardinality(k) = RetentionLimit
                           /\ \A a \in k, b \in t \ k :
                                 js[a].completedAt >= js[b].completedAt}


\* the rows one cleanup statement may delete for project p
deletable(js, p) == {terminalOf(js, p) \ k : k \in keptSets(js, p)}

RECURSIVE deletableAll(_, _)
\* cleanupOldJobs(): one DELETE per DISTINCT project_name; the sets of rows the
\* statements may delete together
deletableAll(js, ps) ==
    IF ps = {} THEN {{}}
    ELSE LET p == CHOOSE q \in ps : TRUE IN
         {d \cup r : d \in deletable(js, p), r \in deletableAll(js, ps \ {p})}

cleanupOldJobs(js, del) == [i \in (DOMAIN js) \ del |-> js[i]]

(* -------------------------------------------------------------- JobWorker *)

Event(type, job, project) == [type |-> type, job |-> job, project |-> project]

\* the worker object startProjectWorker creates
newWorker == [isRunning |-> FALSE, currentJobId |-> NoJob, currentPromise |-> NoJob]

\* mapDelete left out: the worker stays in the map
mapDeleteSkipped(pw, p) == pw

\* Map.set / Map.delete on this.projectWorkers
mapSet(pw, p, w) == [q \in (DOMAIN pw) \cup {p} |-> IF q = p THEN w ELSE pw[q]]
mapDelete(pw, p) == [q \in (DOMAIN pw) \ {p} |-> pw[q]]

\* a sweep that finds no job stuck
isStuckNever(row, now) == FALSE

\* isStuck without job.status === 'running'
isStuckAnyStatus(row, now) == row.startedAt < now - StuckThreshold

\* job.status === 'running' && new Date(job.started_at) < new Date(thirtyMinutesAgo)
isStuck(row, now) == row.status = "running" /\ row.startedAt < now - StuckThreshold

\* recoverStuckJobs: every stuck row of getActiveJobs() is set to failed
recoverStuckJobs(js, now) ==
    [i \in DOMAIN js |->
        IF i \in getActiveJobs(js) /\ isStuck(js[i], now)
        THEN updateJobStatus(js, i, "failed", RecoveryMessage, now)[i]
        ELSE js[i]]

\* mayProcess without the isShuttingDown test: if (!worker) return;
mayProcessIgnoringShutdown(pw, p, shutting) == p \in DOMAIN pw

\* if (!worker || this.isShuttingDown) return;   negated
mayProcess(pw, p, shutting) == p \in DOMAIN pw /\ ~shutting

\* markRunning left out: the job is executed without being set running
markRunningSkipped(js, id, now) == js

\* jobDb.updateJobStatus(job.id, 'running')
markRunning(js, id, now) == updateJobStatus(js, id, "running", NoError, now)

\* processProjectJobs up to its await: st is the state the callback works on
\* (jobs, pw = projectWorkers, execs, em = events emitted so far), job is what
\* getNextJobForProject returned
processProjectJobs(p, st, job, now, shutting) ==
    IF ~mayProcess(st.pw, p, shutting) THEN st
    ELSE IF job = NoJob
    THEN [st EXCEPT !.pw = mapDelete(st.pw, p),
                    !.em = Append(st.em, Event("project-worker-stopped", NoJob, p))]
    ELSE [st EXCEPT !.jobs = markRunning(st.jobs, job, now),
                    !.pw[p] = [isRunning |-> TRUE, currentJobId |-> job,
                               currentPromise |-> job],
                    !.em = Append(st.em, Event("job-started", job, p)),
                    !.execs = st.execs \cup {[project |-> p, job |-> job]}]

\* startProjectWorker without its "worker already exists" return
startProjectWorkerUnchecked(p, st, job, now, shutting) ==
    processProjectJobs(p, [st EXCEPT !.pw = mapSet(st.pw, p, newWorker)],
                       job, now, shutting)

\* startProjectWorker: nothing when the project has a worker, else a new worker
\* and its first processProjectJobs
startProjectWorker(p, st, job, now, shutting) ==
    IF p \in DOMAIN st.pw THEN st
    ELSE processProjectJobs(p, [st EXCEPT !.pw = mapSet(st.pw, p, newWorker)],
                            job, now, shutting)

\* what getNextJobForProject returns for p when `chosen` holds the row the
\* query returns for each project that has one
pickOf(js, chosen, p) ==
    IF \E i \in chosen : js[i].project = p
    THEN CHOOSE i \in chosen : js[i].project = p
    ELSE NoJob

RECURSIVE pickSets(_, _)
\* one possible query result per project
pickSets(js, ps) ==
    IF ps = {} THEN {{}}
    ELSE LET p == CHOOSE q \in ps : TRUE IN
         {(IF j = NoJob THEN {} ELSE {j}) \cup r :
             j \in getNextJobForProject(js, p), r \in pickSets(js, ps \ {p})}

RECURSIVE pollLoop(_, _, _, _, _, _)
\* for (const projectName of projectsWithJobs), in the order of getActiveJobs
pollLoop(ps, st, chosen, now, withJobs, cap) ==
    IF ps = {} THEN st
    ELSE LET p == CHOOSE q \in ps : \A r \in ps : q <= r
             st2 == IF /\ p \in withJobs
                       /\ p \notin DOMAIN st.pw
                       /\ Cardinality(DOMAIN st.pw) < cap
                    THEN startProjectWorker(p, st, pickOf(st.jobs, chosen, p), now, FALSE)
                    ELSE st
         IN pollLoop(ps \ {p}, st2, chosen, now, withJobs, cap)

\* the try block of startJobPolling
pollBody(st, chosen, now, cap) ==
    LET activeJobs == getActiveJobs(st.jobs)
        projectsWithJobs == {st.jobs[i].project : i \in activeJobs}
        st2 == pollLoop(Projects, st, chosen, now, projectsWithJobs, cap)
    IN [st2 EXCEPT !.em = Append(st2.em, [type |-> "jobs-update", job |-> NoJob,
                                          project |-> NoProject,
                                          activeJobs |-> activeJobs,
                                          activeProjects |-> DOMAIN st2.pw])]

\* the state a callback starts from
cur == [jobs |-> jobs, pw |-> projectWorkers, execs |-> execs, em |-> <<>>]

\* a callback leaves st behind
Commit(st) ==
    /\ jobs' = st.jobs
    /\ projectWorkers' = st.pw
    /\ execs' = st.execs
    /\ emitted' = st.em

\* the state after construction, with the cap at `cap`
Constructed(cap) ==
    /\ jobs = <<>>
    /\ nextId = 1
    /\ clock = 0
    /\ projectWorkers = <<>>
    /\ isShuttingDown = FALSE
    /\ started = FALSE
    /\ pollTimer = FALSE
    /\ cleanupInterval = FALSE
    /\ recoveryInterval = FALSE
    /\ immediates = <<>>
    /\ execs = {}
    /\ shutdownState = "none"
    /\ shutdownWaits = {}
    /\ crashes = 0
    /\ maxConcurrentProjects = cap
    /\ emitted = <<>>
    /\ procs = <<>>
    /\ nextRun = 1
    /\ registry = <<>>
    /\ abortReturned = "none"
    /\ storeFaults = 0
    /\ thrown = 0
    /\ partial = <<>>
    /\ artifacts = <<>>
    /\ returned = NoAnswer
    /\ options = <<>>
    /\ listed = <<>>

Init == Constructed(DefaultCap)

\* the same scheduler with one worker slot
InitLowCap == Constructed(LowCap)

\* time passes
Tick ==
    /\ clock < MaxClock
    /\ clock' = clock + 1
    /\ emitted' = <<>>
    /\ UNCHANGED <<jobs, nextId, projectWorkers, isShuttingDown, started, pollTimer,
                   cleanupInterval, recoveryInterval, immediates, execs,
                   shutdownState, shutdownWaits, crashes, maxConcurrentProjects>>
    /\ UNCHANGED <<adapterVars, faultVars, hostVars>>

\* start(): recoverStuckJobs(), startJobPolling(), the two intervals
Start ==
    /\ ~started
    /\ started' = TRUE
    /\ LET recovered == [cur EXCEPT !.jobs = recoverStuckJobs(jobs, clock)] IN
       IF isShuttingDown
       THEN Commit(recovered) /\ pollTimer' = pollTimer
       ELSE \E chosen \in pickSets(recovered.jobs, Projects) :
               Commit(pollBody(recovered, chosen, clock, maxConcurrentProjects)) /\ pollTimer' = TRUE
    /\ cleanupInterval' = TRUE
    /\ recoveryInterval' = TRUE
    /\ UNCHANGED <<nextId, clock, isShuttingDown, immediates, shutdownState,
                   shutdownWaits, crashes, maxConcurrentProjects>>
    /\ UNCHANGED <<adapterVars, faultVars, hostVars>>

\* the poll timer fires: startJobPolling()
Poll ==
    /\ pollTimer
    /\ IF isShuttingDown
       THEN Commit(cur) /\ pollTimer' = FALSE
       ELSE \E chosen \in pickSets(jobs, Projects) :
               Commit(pollBody(cur, chosen, clock, maxConcurrentProjects)) /\ pollTimer' = TRUE
    /\ UNCHANGED <<nextId, clock, isShuttingDown, started, cleanupInterval,
                   recoveryInterval, immediates, shutdownState, shutdownWaits, crashes, maxConcurrentProjects>>
    /\ UNCHANGED <<adapterVars, faultVars, hostVars>>

\* the recovery interval fires: recoverStuckJobs()
Recover ==
    /\ recoveryInterval
    /\ jobs' = recoverStuckJobs(jobs, clock)
    /\ emitted' = <<>>
    /\ UNCHANGED <<nextId, clock, projectWorkers, isShuttingDown, started, pollTimer,
                   cleanupInterval, recoveryInterval, immediates, execs,
                   shutdownState, shutdownWaits, crashes, maxConcurrentProjects>>
    /\ UNCHANGED <<adapterVars, faultVars, hostVars>>

\* the cleanup interval fires: jobDb.cleanupOldJobs()
Cleanup ==
    /\ cleanupInterval
    /\ \E del \in deletableAll(jobs, {jobs[i].project : i \in Ids}) :
          jobs' = cleanupOldJobs(jobs, del)
    /\ emitted' = <<>>
    /\ UNCHANGED <<nextId, clock, projectWorkers, isShuttingDown, started, pollTimer,
                   cleanupInterval, recoveryInterval, immediates, execs,
                   shutdownState, shutdownWaits, crashes, maxConcurrentProjects>>
    /\ UNCHANGED <<adapterVars, faultVars, hostVars>>

\* addJob(projectName, sessionId, command, options, userId, priority)
AddJob ==
    /\ nextId <= MaxJobs
    /\ \E p \in Projects, s \in Sessions, prio \in Priorities :
          /\ jobs' = addJobRow(jobs, nextId, p, s, prio, clock)
          /\ emitted' = <<Event("job-queued", nextId, p)>>
          /\ immediates' =
                IF /\ p \notin DOMAIN projectWorkers
                   /\ Cardinality(DOMAIN projectWorkers) < maxConcurrentProjects
                THEN Append(immediates, [fn |-> "startProjectWorker", project |-> p])
                ELSE immediates
    /\ nextId' = nextId + 1
    /\ UNCHANGED <<clock, projectWorkers, isShuttingDown, started, pollTimer,
                   cleanupInterval, recoveryInterval, execs, shutdownState,
                   shutdownWaits, crashes, maxConcurrentProjects>>
    /\ UNCHANGED <<adapterVars, faultVars, hostVars>>

\* the oldest setImmediate callback runs
RunImmediate ==
    /\ immediates # <<>>
    /\ LET cb == Head(immediates) IN
       \E job \in getNextJobForProject(jobs, cb.project) :
          Commit(IF cb.fn = "startProjectWorker"
                 THEN startProjectWorker(cb.project, cur, job, clock, isShuttingDown)
                 ELSE processProjectJobs(cb.project, cur, job, clock, isShuttingDown))
    /\ immediates' = Tail(immediates)
    /\ UNCHANGED <<nextId, clock, isShuttingDown, started, pollTimer, cleanupInterval,
                   recoveryInterval, shutdownState, shutdownWaits, crashes, maxConcurrentProjects>>
    /\ UNCHANGED <<adapterVars, faultVars, hostVars>>

\* what Promise.all(...).catch(...) of stop() does when promise `job` settles
settleShutdown(state, waits, job, ok) ==
    IF state # "pending" \/ job \notin waits THEN [state |-> state, waits |-> waits]
    ELSE IF ~ok THEN [state |-> "resolved", waits |-> {}]
    ELSE IF waits = {job} THEN [state |-> "resolved", waits |-> {}]
    ELSE [state |-> "pending", waits |-> waits \ {job}]

\* the status the worker writes when executeJob settles
settledStatus(ok) == IF ok THEN "completed" ELSE "failed"

\* processProjectJobs after its await, when the promise of execution e settles
\* (ok: resolved, else rejected with message msg): the store, the worker, the
\* continuation and the promise stop() returned
workerResumes(e, ok, msg) ==
    LET p == e.project
        w == projectWorkers[p]
        jobId == IF ok THEN e.job ELSE w.currentJobId
        sd == settleShutdown(shutdownState, shutdownWaits, e.job, ok)
    IN /\ jobs' = IF jobId # NoJob
                  THEN updateJobStatus(jobs, jobId, settledStatus(ok),
                                       IF ok THEN NoError ELSE msg, clock)
                  ELSE jobs
       /\ projectWorkers' = [projectWorkers EXCEPT ![p] = newWorker]
       /\ execs' = execs \ {e}
       /\ immediates' = IF ~isShuttingDown
                        THEN Append(immediates,
                                    [fn |-> "processProjectJobs", project |-> p])
                        ELSE immediates
       /\ shutdownState' = sd.state
       /\ shutdownWaits' = sd.waits

\* the events processProjectJobs emits after its await
settledEvents(e, ok) ==
    LET jobId == IF ok THEN e.job ELSE projectWorkers[e.project].currentJobId IN
    IF ok THEN <<Event("job-completed", e.job, e.project)>>
    ELSE IF jobId # NoJob THEN <<Event("job-failed", jobId, e.project)>>
    ELSE <<>>

\* the process of e closes with code 0 (ok) or another code; spawnClaude and
\* executeJob settle and processProjectJobs resumes after its await
ProcessExit ==
    \E e \in execs, ok \in BOOLEAN :
       /\ workerResumes(e, ok, ExitMessage)
       /\ emitted' = settledEvents(e, ok)
       /\ UNCHANGED <<nextId, clock, isShuttingDown, started, pollTimer,
                      cleanupInterval, recoveryInterval, crashes, maxConcurrentProjects>>
       /\ UNCHANGED <<adapterVars, faultVars, hostVars>>

\* stop()
Stop ==
    /\ shutdownState = "none"
    /\ isShuttingDown' = TRUE
    /\ pollTimer' = FALSE
    /\ cleanupInterval' = FALSE
    /\ recoveryInterval' = FALSE
    /\ LET waits == {projectWorkers[p].currentPromise : p \in DOMAIN projectWorkers}
                    \ {NoJob} IN
       /\ shutdownWaits' = waits
       /\ shutdownState' = IF waits = {} THEN "resolved" ELSE "pending"
    /\ emitted' = <<>>
    /\ UNCHANGED <<jobs, nextId, clock, projectWorkers, started, immediates, execs,
                   crashes, maxConcurrentProjects>>
    /\ UNCHANGED <<adapterVars, faultVars, hostVars>>

\* the server process dies and is started again: the store survives, the
\* JobWorker singleton is constructed anew, the child processes are gone
Crash ==
    /\ crashes < MaxCrashes
    /\ crashes' = crashes + 1
    /\ projectWorkers' = <<>>
    /\ isShuttingDown' = FALSE
    /\ started' = FALSE
    /\ pollTimer' = FALSE
    /\ cleanupInterval' = FALSE
    /\ recoveryInterval' = FALSE
    /\ immediates' = <<>>
    /\ execs' = {}
    /\ shutdownState' = "none"
    /\ shutdownWaits' = {}
    /\ emitted' = <<>>
    /\ procs' = <<>>
    /\ registry' = <<>>
    /\ abortReturned' = "none"
    /\ UNCHANGED <<jobs, nextId, clock, maxConcurrentProjects, nextRun, faultVars, hostVars>>

Next ==
    \/ Tick
    \/ Start
    \/ Poll
    \/ Recover
    \/ Cleanup
    \/ AddJob
    \/ RunImmediate
    \/ ProcessExit
    \/ Stop
    \/ Crash

Spec == Init /\ [][Next]_vars

SpecLowCap == InitLowCap /\ [][Next]_vars

(* --------------------------------------------------------------- progress *)
(* The scheduler without shutdown, with what its runtime guarantees: a      *)
(* timer that is armed fires, a setImmediate callback runs, start() is      *)
(* called, and every process that was spawned exits. How a process exits is *)
(* its own affair: no fairness is assumed on the exit code.                 *)

\* the process executing a job of project p exits
ProcessExitOf(p) == ProcessExit /\ \E e \in execs \ execs' : e.project = p

Progress ==
    /\ WF_vars(Start)
    /\ WF_vars(Poll)
    /\ WF_vars(RunImmediate)
    /\ \A p \in Projects : WF_vars(ProcessExitOf(p))

NextLive ==
    \/ AddJob
    \/ Start
    \/ Poll
    \/ RunImmediate
    \/ ProcessExit

\* one worker slot, no shutdown, no crash
SpecLowCapLive == InitLowCap /\ [][NextLive]_vars /\ Progress

NextRestartLive ==
    \/ Tick
    \/ AddJob
    \/ Start
    \/ Poll
    \/ Recover
    \/ RunImmediate
    \/ ProcessExit
    \/ Crash

\* no shutdown; the server may crash and be started again
SpecRestartLive == Init /\ [][NextRestartLive]_vars /\ Progress /\ WF_vars(Recover)

\* time passes after the server has died, so that a job it left running
\* becomes older than the threshold
TickAfterCrash == crashes > 0 /\ Tick

NextRepairLive ==
    \/ TickAfterCrash
    \/ AddJob
    \/ Start
    \/ Poll
    \/ Recover
    \/ RunImmediate
    \/ ProcessExit
    \/ Crash

\* crash and restart; start() is called, time passes and the recovery
\* interval fires; nothing is assumed of polls, workers and processes
SpecRepairLive ==
    Init /\ [][NextRepairLive]_vars
         /\ WF_vars(Start) /\ WF_vars(Recover) /\ WF_vars(TickAfterCrash)

(* ------------------------------------------------------------- claude-cli *)
(* spawnClaude is new Promise(async (resolve, reject) => { ... }): the body *)
(* runs up to its first await inside executeJob, spawns the process in a    *)
(* later callback, and settles in the 'close' or the 'error' handler. What  *)
(* the body throws rejects the promise of the async function, which nothing *)
(* awaits: the promise spawnClaude returned then never settles.             *)

MaxRuns == 2          \* runs of spawnClaude that get as far as spawn()

NoRun == 0                                 \* Map.get(key) === undefined
Placeholders == {"t1", "t2"}               \* Date.now().toString()
Keys == (Sessions \ {NoSession}) \cup Placeholders
NoKey == "none"                            \* the run never reached line 257
ExitCodes == {"0", "1", "null"}            \* code of 'close'; null: killed by a signal
SpawnErrno == "-2"                         \* code of 'close' after a failed spawn
SignalMessage == "Claude CLI exited with code null"
SpawnErrorMessage == "spawn claude ENOENT"

\* new Error(`Claude CLI exited with code ${code}`)
closeMessage(code) == IF code = "1" THEN ExitMessage ELSE SignalMessage

\* the job-output event executeJob's mockWs.send emits for a message of `kind`
OutputEvent(job, project, kind) ==
    [type |-> "job-output", job |-> job, project |-> project, output |-> kind]

\* the lines a process may print: a JSON record with or without session_id,
\* or text that is not JSON
OutputLines ==
    {[json |-> TRUE, session |-> "s1"], [json |-> TRUE, session |-> NoSession],
     [json |-> FALSE, session |-> NoSession]}

\* const processKey = capturedSessionId || sessionId || Date.now().toString()
processKey(input, placeholder) == IF input # NoSession THEN input ELSE placeholder

\* const finalSessionId = capturedSessionId || sessionId || processKey
finalSessionId(run) ==
    IF run.captured # NoSession THEN run.captured
    ELSE IF run.input # NoSession THEN run.input
    ELSE run.key

\* abortClaudeSession without activeClaudeProcesses.delete(sessionId)
abortKeepsEntry(reg, key) ==
    IF key \in DOMAIN reg
    THEN [found |-> "true", reg |-> reg, run |-> reg[key]]
    ELSE [found |-> "false", reg |-> reg, run |-> NoRun]

\* abortClaudeSession(sessionId): what it returns, the registry it leaves, and
\* the run whose process it called kill('SIGTERM') on
abortClaudeSession(reg, key) ==
    IF key \in DOMAIN reg
    THEN [found |-> "true", reg |-> mapDelete(reg, key), run |-> reg[key]]
    ELSE [found |-> "false", reg |-> reg, run |-> NoRun]

\* the closure of a run after spawn() returned a child (phase live), after
\* spawn() returned a child that could not be started (phase failing: its
\* 'error' event is pending), or after the body threw (phase threw)
newRun(e, input, key, phase) ==
    [job |-> e.job, project |-> e.project, input |-> input, captured |-> input,
     key |-> IF phase = "threw" THEN NoKey ELSE key, phase |-> phase,
     signalled |-> FALSE, settled |-> "pending", code |-> "none"]

\* the execution a run settles
execOf(run) == [project |-> run.project, job |-> run.job]

\* resolve() / reject(error) of a run: the first one settles the promise and
\* the worker resumes, a later one does nothing; `events` are the messages the
\* handler sent before
settle(r, ok, msg, events) ==
    IF procs[r].settled = "pending" /\ execOf(procs[r]) \in execs
    THEN /\ workerResumes(execOf(procs[r]), ok, msg)
         /\ emitted' = events \o settledEvents(execOf(procs[r]), ok)
    ELSE /\ emitted' = events
         /\ UNCHANGED <<jobs, projectWorkers, execs, immediates, shutdownState,
                        shutdownWaits>>

\* the promise of run r after resolve() / reject()
settledAs(run, ok) ==
    IF run.settled # "pending" THEN run.settled
    ELSE IF ok THEN "resolved" ELSE "rejected"

\* options.sessionId of a job: the submitter of a job of a session passes the
\* session id in the options as well
optionsSessionId(js, id) == IF id \in DOMAIN js THEN js[id].session ELSE NoSession

\* the body of spawnClaude reaches spawn() for an execution whose run has not
\* got that far: the child starts, or cannot be started and reports it with an
\* 'error' event (ENOENT, EACCES), or the body throws (options is null, an
\* argument holds a NUL byte, spawn() throws E2BIG)
AdapterSpawn ==
    /\ nextRun <= MaxRuns
    /\ \E e \in execs, t \in Placeholders, phase \in {"live", "failing", "threw"} :
          LET input == optionsSessionId(jobs, e.job) IN
          /\ \A r \in DOMAIN procs :
                procs[r].job = e.job => procs[r].settled # "pending"
          /\ procs' = mapSet(procs, nextRun,
                             newRun(e, input, processKey(input, t), phase))
          /\ registry' = IF phase = "threw" THEN registry
                         ELSE mapSet(registry, processKey(input, t), nextRun)
    /\ nextRun' = nextRun + 1
    /\ emitted' = <<>>
    /\ UNCHANGED <<jobs, nextId, clock, projectWorkers, isShuttingDown, started,
                   pollTimer, cleanupInterval, recoveryInterval, immediates, execs,
                   shutdownState, shutdownWaits, crashes, maxConcurrentProjects,
                   abortReturned, faultVars, hostVars>>

\* claudeProcess.stdout.on('data'): one line of output
AdapterOutput ==
    /\ \E r \in DOMAIN procs, line \in OutputLines :
          LET run == procs[r]
              captures == line.json /\ line.session # NoSession
                          /\ run.captured = NoSession
              created == IF captures /\ run.input = NoSession
                         THEN <<OutputEvent(run.job, run.project, "session-created")>>
                         ELSE <<>>
          IN /\ run.phase = "live"
             /\ procs' = IF captures THEN [procs EXCEPT ![r].captured = line.session]
                         ELSE procs
             /\ registry' = IF captures /\ run.key # line.session
                            THEN mapSet(mapDelete(registry, run.key), line.session, r)
                            ELSE registry
             /\ emitted' = IF line.json
                           THEN created \o <<OutputEvent(run.job, run.project,
                                                         "claude-response")>>
                           ELSE <<OutputEvent(run.job, run.project, "claude-output")>>
    /\ UNCHANGED <<jobs, nextId, clock, projectWorkers, isShuttingDown, started,
                   pollTimer, cleanupInterval, recoveryInterval, immediates, execs,
                   shutdownState, shutdownWaits, crashes, maxConcurrentProjects,
                   nextRun, abortReturned, faultVars, hostVars>>

\* claudeProcess.on('error'): the child could not be started
AdapterError ==
    /\ \E r \in DOMAIN procs :
          /\ procs[r].phase = "failing"
          /\ registry' = mapDelete(registry, finalSessionId(procs[r]))
          /\ procs' = [procs EXCEPT ![r].phase = "errored",
                                    ![r].settled = settledAs(procs[r], FALSE)]
          /\ settle(r, FALSE, SpawnErrorMessage,
                    <<OutputEvent(procs[r].job, procs[r].project, "claude-error")>>)
    /\ UNCHANGED <<nextId, clock, isShuttingDown, started, pollTimer, cleanupInterval,
                   recoveryInterval, crashes, maxConcurrentProjects, nextRun,
                   abortReturned, faultVars, hostVars>>

\* claudeProcess.on('close'): the process has exited with `code`, or the child
\* that could not be started is closed
AdapterClose ==
    /\ \E r \in DOMAIN procs, code \in ExitCodes \cup {SpawnErrno} :
          /\ \/ procs[r].phase = "live" /\ code \in ExitCodes
             \/ procs[r].phase = "errored" /\ code = SpawnErrno
          /\ registry' = mapDelete(registry, finalSessionId(procs[r]))
          /\ procs' = [procs EXCEPT ![r].phase = "closed", ![r].code = code,
                                    ![r].settled = settledAs(procs[r], code = "0")]
          /\ settle(r, code = "0", closeMessage(code),
                    <<OutputEvent(procs[r].job, procs[r].project, "claude-complete")>>)
    /\ UNCHANGED <<nextId, clock, isShuttingDown, started, pollTimer, cleanupInterval,
                   recoveryInterval, crashes, maxConcurrentProjects, nextRun,
                   abortReturned, faultVars, hostVars>>

\* abortClaudeSession(key), called by the host
AbortWith(key) ==
    LET a == abortClaudeSession(registry, key) IN
    /\ registry' = a.reg
    /\ abortReturned' = a.found
    /\ procs' = IF a.run # NoRun THEN [procs EXCEPT ![a.run].signalled = TRUE]
                ELSE procs
    /\ emitted' = <<>>
    /\ UNCHANGED <<jobs, nextId, clock, projectWorkers, isShuttingDown, started,
                   pollTimer, cleanupInterval, recoveryInterval, immediates, execs,
                   shutdownState, shutdownWaits, crashes, maxConcurrentProjects,
                   nextRun, faultVars, hostVars>>

Abort == \E key \in Keys : AbortWith(key)

NextAdapter ==
    \/ AddJob
    \/ RunImmediate
    \/ AdapterSpawn
    \/ AdapterOutput
    \/ AdapterError
    \/ AdapterClose
    \/ Abort

\* the workers with the process adapter in detail
SpecAdapter == Init /\ [][NextAdapter]_vars

(* ---------------------------------------------- stdout arriving in chunks *)
(* The 'data' handler splits each chunk at line feeds and treats every      *)
(* piece as a line; nothing is kept from one chunk to the next. The pipe    *)
(* delivers the bytes of a line in one chunk or in two. A chunk that holds  *)
(* several pieces is handled piece by piece in the order of the pieces, as  *)
(* the chunks of one piece each are here.                                   *)

\* what a chunk holds of a line
Parts == {"whole", "head", "tail"}

\* JSON.parse(piece) returns: a whole JSON record decodes; the first or the
\* last part of one does not, and text that is not JSON does not
decodes(line, part) == line.json /\ part = "whole"

\* the messages the body of the for loop sends for one piece and the session
\* id the closure holds afterwards
pieceHandled(run, line, part) ==
    LET captures == /\ decodes(line, part)
                    /\ line.session # NoSession
                    /\ run.captured = NoSession
        created == IF captures /\ run.input = NoSession
                   THEN <<OutputEvent(run.job, run.project, "session-created")>>
                   ELSE <<>>
    IN [captures |-> captures,
        events |-> IF decodes(line, part)
                   THEN created \o <<OutputEvent(run.job, run.project,
                                                 "claude-response")>>
                   ELSE <<OutputEvent(run.job, run.project, "claude-output")>>]

\* claudeProcess.stdout.on('data') for a chunk that holds `part` of `line`
AdapterData(r, line, part) ==
    /\ r \in DOMAIN procs
    /\ procs[r].phase = "live"
    /\ IF part = "tail"
       THEN r \in DOMAIN partial /\ partial[r] = line
       ELSE r \notin DOMAIN partial
    /\ partial' = IF part = "head" THEN mapSet(partial, r, line)
                  ELSE IF part = "tail" THEN mapDelete(partial, r)
                  ELSE partial
    /\ LET h == pieceHandled(procs[r], line, part) IN
       /\ procs' = IF h.captures THEN [procs EXCEPT ![r].captured = line.session]
                   ELSE procs
       /\ registry' = IF h.captures /\ procs[r].key # line.session
                      THEN mapSet(mapDelete(registry, procs[r].key), line.session, r)
                      ELSE registry
       /\ emitted' = h.events
    /\ UNCHANGED <<jobs, nextId, clock, projectWorkers, isShuttingDown, started,
                   pollTimer, cleanupInterval, recoveryInterval, immediates, execs,
                   shutdownState, shutdownWaits, crashes, maxConcurrentProjects,
                   nextRun, abortReturned, faultVars, artifacts, returned, options, listed>>

AdapterChunk == \E r \in DOMAIN procs, line \in OutputLines, part \in Parts :
                   AdapterData(r, line, part)

NextOutput ==
    \/ AddJob
    \/ RunImmediate
    \/ AdapterSpawn
    \/ AdapterChunk
    \/ AdapterError
    \/ AdapterClose

\* the workers and the process adapter with stdout delivered in chunks
SpecOutput == Init /\ [][NextOutput]_vars

(* ------------------------------------------------- temporary image files *)
(* options.images makes the body create a directory and one file per image  *)
(* before it spawns; the 'close' handler is the only code that removes      *)
(* them, and it awaits the removals before it settles the promise.          *)

\* options.images: absent or empty; images whose data match the data URL
\* pattern; images whose data do not (line 49: continue)
ImageInputs == {"none", "valid", "invalid"}

\* what lines 39-81 leave on disk for the images
created(images) ==
    IF images = "valid" THEN {"dir", "file"}
    ELSE IF images = "invalid" THEN {"dir"}
    ELSE {}

\* what is on disk after the removals of the 'close' handler (333-342): all
\* of it gone, or fs.rm has failed and the failure was logged
Undeletable == {"undeletable"}

\* the body of spawnClaude for a job with options.images, up to spawn()
AdapterSpawnImages ==
    /\ nextRun <= MaxRuns
    /\ \E e \in execs, t \in Placeholders, phase \in {"live", "failing", "threw"},
          images \in ImageInputs :
          LET input == optionsSessionId(jobs, e.job) IN
          /\ \A r \in DOMAIN procs :
                procs[r].job = e.job => procs[r].settled # "pending"
          /\ procs' = mapSet(procs, nextRun,
                             newRun(e, input, processKey(input, t), phase))
          /\ registry' = IF phase = "threw" THEN registry
                         ELSE mapSet(registry, processKey(input, t), nextRun)
          /\ artifacts' = mapSet(artifacts, nextRun, created(images))
    /\ nextRun' = nextRun + 1
    /\ emitted' = <<>>
    /\ UNCHANGED <<jobs, nextId, clock, projectWorkers, isShuttingDown, started,
                   pollTimer, cleanupInterval, recoveryInterval, immediates, execs,
                   shutdownState, shutdownWaits, crashes, maxConcurrentProjects,
                   abortReturned, faultVars, partial, returned, options, listed>>

\* claudeProcess.on('close') up to its first await: with temporary files to
\* remove the handler stops at fs.unlink (line 334) before it settles, with
\* none it settles in the same callback
AdapterCloseBegins ==
    /\ \E r \in DOMAIN procs, code \in ExitCodes \cup {SpawnErrno} :
          /\ \/ procs[r].phase = "live" /\ code \in ExitCodes
             \/ procs[r].phase = "errored" /\ code = SpawnErrno
          /\ registry' = mapDelete(registry, finalSessionId(procs[r]))
          /\ IF "file" \in artifacts[r]
             THEN /\ procs' = [procs EXCEPT ![r].phase = "cleaning", ![r].code = code]
                  /\ emitted' = <<OutputEvent(procs[r].job, procs[r].project,
                                              "claude-complete")>>
                  /\ UNCHANGED <<jobs, projectWorkers, execs, immediates,
                                 shutdownState, shutdownWaits>>
             ELSE /\ procs' = [procs EXCEPT ![r].phase = "closed", ![r].code = code,
                                   ![r].settled = settledAs(procs[r], code = "0")]
                  /\ settle(r, code = "0", closeMessage(code),
                            <<OutputEvent(procs[r].job, procs[r].project,
                                          "claude-complete")>>)
    /\ UNCHANGED <<nextId, clock, isShuttingDown, started, pollTimer, cleanupInterval,
                   recoveryInterval, crashes, maxConcurrentProjects, nextRun,
                   abortReturned, faultVars, hostVars>>

\* the 'close' handler after its awaits (333-349): the files and the
\* directory are removed, or a removal failed and was logged; then the
\* promise is settled by the exit code
AdapterCloseCleans ==
    /\ \E r \in DOMAIN procs, left \in {{}, Undeletable} :
          /\ procs[r].phase = "cleaning"
          /\ artifacts' = mapSet(artifacts, r, left)
          /\ procs' = [procs EXCEPT ![r].phase = "closed",
                                    ![r].settled = settledAs(procs[r],
                                                             procs[r].code = "0")]
          /\ settle(r, procs[r].code = "0", closeMessage(procs[r].code), <<>>)
    /\ UNCHANGED <<nextId, clock, isShuttingDown, started, pollTimer, cleanupInterval,
                   recoveryInterval, crashes, maxConcurrentProjects, nextRun,
                   registry, abortReturned, faultVars, partial, returned, options, listed>>

NextImages ==
    \/ AddJob
    \/ RunImmediate
    \/ AdapterSpawnImages
    \/ AdapterError
    \/ AdapterCloseBegins
    \/ AdapterCloseCleans

\* the workers and the process adapter for jobs that may carry images
SpecImages == Init /\ [][NextImages]_vars

(* ------------------------------------------------- the store driven alone *)
(* The jobDb operations called directly, as a test of the store calls them: *)
(* rows are inserted while time passes, then claimed and finished in any    *)
(* order.                                                                   *)

schedulerVars == <<projectWorkers, isShuttingDown, started, pollTimer, cleanupInterval,
                   recoveryInterval, immediates, execs, shutdownState, shutdownWaits,
                   crashes, maxConcurrentProjects>>

\* time passes between two inserts
StoreTick ==
    /\ clock < StoreMaxClock
    /\ Ids # {}
    /\ nextId <= StoreMaxJobs
    /\ clock' = clock + 1
    /\ emitted' = <<>>
    /\ UNCHANGED <<jobs, nextId, schedulerVars>>
    /\ UNCHANGED <<adapterVars, faultVars, hostVars>>

\* jobDb.addJob
StoreEnqueue ==
    /\ nextId <= StoreMaxJobs
    /\ \E p \in Projects, s \in Sessions, prio \in StorePriorities :
          jobs' = addJobRow(jobs, nextId, p, s, prio, clock)
    /\ nextId' = nextId + 1
    /\ emitted' = <<>>
    /\ UNCHANGED <<clock, schedulerVars>>
    /\ UNCHANGED <<adapterVars, faultVars, hostVars>>

\* getNextJobForProject and updateJobStatus(job.id, 'running'), as a worker of
\* project p does them
StoreClaim ==
    /\ nextId > StoreMaxJobs
    /\ \E p \in Projects :
          \E job \in getNextJobForProject(jobs, p) :
             LET st == processProjectJobs(p, [cur EXCEPT !.pw = mapSet(<<>>, p, newWorker)],
                                          job, clock, FALSE)
             IN /\ jobs' = st.jobs
                /\ emitted' = st.em
    /\ UNCHANGED <<nextId, clock, schedulerVars>>
    /\ UNCHANGED <<adapterVars, faultVars, hostVars>>

\* updateJobStatus(job.id, 'completed') / updateJobStatus(jobId, 'failed', error.message)
StoreFinish ==
    /\ \E i \in Ids, ok \in BOOLEAN :
          /\ jobs[i].status = "running"
          /\ jobs' = updateJobStatus(jobs, i, settledStatus(ok),
                                     IF ok THEN NoError ELSE ExitMessage, clock)
    /\ emitted' = <<>>
    /\ UNCHANGED <<nextId, clock, schedulerVars>>
    /\ UNCHANGED <<adapterVars, faultVars, hostVars>>

NextStore ==
    \/ StoreTick
    \/ StoreEnqueue
    \/ StoreClaim
    \/ StoreFinish

SpecStore == Init /\ [][NextStore]_vars

\* jobDb.getNextJobForProject(p) called by itself: two SELECT statements
StoreQuery(p) ==
    /\ nextId > StoreMaxJobs
    /\ \E job \in getNextJobForProject(jobs, p) :
          returned' = [op |-> "getNextJobForProject", jobs |-> {job} \ {NoJob},
                       projects |-> {p}, totalWorkers |-> 0]
    /\ emitted' = <<>>
    /\ UNCHANGED <<jobs, nextId, clock, schedulerVars, adapterVars, faultVars,
                   partial, artifacts, options, listed>>

StoreQueries == \E p \in Projects : StoreQuery(p)

\* an ORDER BY whose priority term ascends
listedBeforePriorityAscending(x, y) ==
    \/ x.project < y.project
    \/ x.project = y.project /\ x.priority < y.priority
    \/ x.project = y.project /\ x.priority = y.priority /\ x.createdAt < y.createdAt

\* ORDER BY project_name, priority DESC, created_at ASC: row x must come first
listedBefore(x, y) ==
    \/ x.project < y.project
    \/ x.project = y.project /\ x.priority > y.priority
    \/ x.project = y.project /\ x.priority = y.priority /\ x.createdAt < y.createdAt

\* the row sequences jobDb.getActiveJobs() may return: the rows selected, in an
\* order that ORDER BY allows (rows equal in all three terms come in any order)
getActiveJobsOrder(js) ==
    {seq \in [1..Cardinality(getActiveJobs(js)) -> getActiveJobs(js)] :
        /\ \A a, b \in DOMAIN seq : a # b => seq[a] # seq[b]
        /\ \A a, b \in DOMAIN seq : a < b => ~listedBefore(js[seq[b]], js[seq[a]])}

\* jobDb.getActiveJobs() called by itself: one SELECT statement
StoreList ==
    /\ nextId > StoreMaxJobs
    /\ listed' \in getActiveJobsOrder(jobs)
    /\ emitted' = <<>>
    /\ UNCHANGED <<jobs, nextId, clock, schedulerVars, adapterVars, faultVars,
                   partial, artifacts, returned, options>>

NextStoreQueries ==
    \/ StoreTick
    \/ StoreEnqueue
    \/ StoreClaim
    \/ StoreFinish
    \/ StoreQueries
    \/ StoreList

\* the store driven alone, with the two queries also called by themselves
SpecStoreQueries == Init /\ [][NextStoreQueries]_vars

(* ------------------------------------------------------ retention cleanup *)
(* The store with cleanupOldJobs called at any time, with and without a     *)
(* project: rows are inserted, set running and finished while time passes.  *)
(* cleanupOldJobs reads project_name, status and completed_at only, so the  *)
(* rows have no session and the default priority.                           *)

RetMaxJobs == 3       \* rows ever inserted
RetMaxClock == 1      \* the clock stops here

\* time passes
RetTick ==
    /\ clock < RetMaxClock
    /\ clock' = clock + 1
    /\ emitted' = <<>>
    /\ UNCHANGED <<jobs, nextId, schedulerVars, adapterVars, faultVars, hostVars>>

\* jobDb.addJob
RetEnqueue ==
    /\ nextId <= RetMaxJobs
    /\ \E p \in Projects : jobs' = addJobRow(jobs, nextId, p, NoSession, 0, clock)
    /\ nextId' = nextId + 1
    /\ emitted' = <<>>
    /\ UNCHANGED <<clock, schedulerVars, adapterVars, faultVars, hostVars>>

\* jobDb.updateJobStatus(id, 'running') of a pending or failed row
RetRun ==
    /\ \E i \in Ids :
          /\ jobs[i].status \in {"pending", "failed"}
          /\ jobs' = markRunning(jobs, i, clock)
    /\ emitted' = <<>>
    /\ UNCHANGED <<nextId, clock, schedulerVars, adapterVars, faultVars, hostVars>>

\* jobDb.cleanupOldJobs(projectName), jobDb.cleanupOldJobs()
RetCleanupWith(arg) ==
    /\ \E del \in (IF arg # NoProject THEN deletable(jobs, arg)
                   ELSE deletableAll(jobs, {jobs[i].project : i \in Ids})) :
          jobs' = cleanupOldJobs(jobs, del)
    /\ emitted' = <<>>
    /\ UNCHANGED <<nextId, clock, schedulerVars, adapterVars, faultVars, hostVars>>

RetCleanup == \E arg \in Projects \cup {NoProject} : RetCleanupWith(arg)

NextRetention ==
    \/ RetTick
    \/ RetEnqueue
    \/ RetRun
    \/ StoreFinish
    \/ RetCleanup

SpecRetention == Init /\ [][NextRetention]_vars

(* ------------------------------------------------ submission that throws *)

\* errors propagated to callers of addJob that the runs follow
MaxFaults == 2

\* addJob when stmt.run of jobDb.addJob throws (part_000 93-95 rethrows, the
\* catch of JobWorker.addJob logs and rethrows): the lines after the insert
\* are skipped
AddJobFails ==
    /\ thrown < MaxFaults
    /\ \E p \in Projects, s \in Sessions, prio \in Priorities :
          /\ storeFaults' = storeFaults + 1
          /\ thrown' = thrown + 1
          /\ emitted' = <<>>
    /\ UNCHANGED <<jobs, nextId, clock, schedulerVars, adapterVars, hostVars>>

\* addJob with a command that is truthy and not a string (a number is bound
\* by the insert): the row is inserted, command.substring (line 939) throws
\* while the arguments of emit are built, the catch rethrows
AddJobThrows ==
    /\ nextId <= MaxJobs
    /\ thrown < MaxFaults
    /\ \E p \in Projects, s \in Sessions, prio \in Priorities :
          jobs' = addJobRow(jobs, nextId, p, s, prio, clock)
    /\ nextId' = nextId + 1
    /\ thrown' = thrown + 1
    /\ emitted' = <<>>
    /\ UNCHANGED <<clock, schedulerVars, adapterVars, storeFaults, hostVars>>

NextFaults ==
    \/ AddJob
    \/ AddJobFails
    \/ AddJobThrows
    \/ Start
    \/ Poll
    \/ RunImmediate
    \/ ProcessExit

SpecFaults == Init /\ [][NextFaults]_vars

(* ------------------------------------------ queries and sweeps that fail *)

\* getJobStatus(): the active jobs and the projects that have a worker
GetJobStatus ==
    /\ returned' = [op |-> "getJobStatus", jobs |-> getActiveJobs(jobs),
                    projects |-> DOMAIN projectWorkers,
                    totalWorkers |-> Cardinality(DOMAIN projectWorkers)]
    /\ emitted' = <<>>
    /\ UNCHANGED <<jobs, nextId, clock, schedulerVars, adapterVars, faultVars,
                   partial, artifacts, options, listed>>

\* getJobStatus() when jobDb.getActiveJobs throws: the catch (969-976) logs
\* and returns a status with no jobs and no workers
GetJobStatusFails ==
    /\ storeFaults < MaxFaults
    /\ storeFaults' = storeFaults + 1
    /\ returned' = [op |-> "getJobStatus", jobs |-> {}, projects |-> {},
                    totalWorkers |-> 0]
    /\ emitted' = <<>>
    /\ UNCHANGED <<jobs, nextId, clock, schedulerVars, adapterVars, thrown,
                   partial, artifacts, options, listed>>

\* the poll timer fires and jobDb.getActiveJobs throws: the catch (796-798)
\* logs, the rest of the try block is skipped, the next poll is scheduled
PollFails ==
    /\ pollTimer
    /\ ~isShuttingDown
    /\ storeFaults < MaxFaults
    /\ storeFaults' = storeFaults + 1
    /\ pollTimer' = TRUE
    /\ emitted' = <<>>
    /\ UNCHANGED <<jobs, nextId, clock, projectWorkers, isShuttingDown, started,
                   cleanupInterval, recoveryInterval, immediates, execs,
                   shutdownState, shutdownWaits, crashes, maxConcurrentProjects,
                   adapterVars, thrown, hostVars>>

NextQueries ==
    \/ AddJob
    \/ AddJobFails
    \/ Start
    \/ Poll
    \/ PollFails
    \/ RunImmediate
    \/ ProcessExit
    \/ GetJobStatus
    \/ GetJobStatusFails

\* the scheduler with a store that may throw in submit, status and poll
SpecQueries == Init /\ [][NextQueries]_vars

NextSweeps ==
    \/ AddJob
    \/ Start
    \/ Poll
    \/ PollFails
    \/ RunImmediate
    \/ ProcessExit
    \/ Stop
    \/ Crash

\* one worker slot; polls that may fail in the store, shutdown, restart
SpecSweeps == InitLowCap /\ [][NextSweeps]_vars

(* ----------------------------------------------------------- job identity *)
(* The columns a job gets at enqueue, through claim, finish and retention   *)
(* cleanup. addJob stores JSON.stringify(options); getNextJobForProject     *)
(* answers JSON.parse(row.options), which executeJob hands to spawnClaude.  *)
(* The option values are the ones a JSON message can carry.                 *)

\* option objects of a submitter
OptionValues == {"empty", "resume"}

\* a job that no executeJob call has got yet
NotHanded == "none"

\* a parse that loses the members of the object
JSONparseEmpty(text) == "empty"

\* JSON.stringify(options)
JSONstringify(o) ==
    CASE o = "empty" -> "{}"
      [] o = "resume" -> "{\"resume\":true}"

\* JSON.parse(row.options)
JSONparse(text) ==
    CASE text = "{}" -> "empty"
      [] text = "{\"resume\":true}" -> "resume"

\* jobWorker.addJob(p, null, command, o): the row and its options column
IdAddJob ==
    /\ nextId <= RetMaxJobs
    /\ \E p \in Projects, o \in OptionValues :
          /\ jobs' = addJobRow(jobs, nextId, p, NoSession, 0, clock)
          /\ options' = mapSet(options, nextId,
                               [submitted |-> o, text |-> JSONstringify(o),
                                handed |-> NotHanded])
          /\ emitted' = <<Event("job-queued", nextId, p)>>
    /\ nextId' = nextId + 1
    /\ UNCHANGED <<clock, schedulerVars, adapterVars, faultVars,
                   partial, artifacts, returned, listed>>

\* a worker of project p claims its next job and calls
\* spawnClaude(job.command, job.options)
IdExecute ==
    /\ \E p \in Projects :
          \E job \in getNextJobForProject(jobs, p) \ {NoJob} :
             LET st == processProjectJobs(p, [cur EXCEPT !.pw = mapSet(<<>>, p, newWorker)],
                                          job, clock, FALSE)
             IN /\ jobs' = st.jobs
                /\ emitted' = st.em
                /\ options' = [options EXCEPT ![job].handed = JSONparse(options[job].text)]
    /\ UNCHANGED <<nextId, clock, schedulerVars, adapterVars, faultVars,
                   partial, artifacts, returned, listed>>

\* jobDb.cleanupOldJobs(projectName), jobDb.cleanupOldJobs(): the rows go with
\* all their columns
IdCleanup ==
    /\ \E arg \in Projects \cup {NoProject} :
          \E del \in (IF arg # NoProject THEN deletable(jobs, arg)
                      ELSE deletableAll(jobs, {jobs[i].project : i \in Ids})) :
             /\ jobs' = cleanupOldJobs(jobs, del)
             /\ options' = [i \in DOMAIN cleanupOldJobs(jobs, del) |-> options[i]]
    /\ emitted' = <<>>
    /\ UNCHANGED <<nextId, clock, schedulerVars, adapterVars, faultVars,
                   partial, artifacts, returned, listed>>

NextIdentity ==
    \/ RetTick
    \/ IdAddJob
    \/ IdExecute
    \/ StoreFinish
    \/ IdCleanup

SpecIdentity == Init /\ [][NextIdentity]_vars

(* ------------------------------------------- store faults in the worker *)
(* The worker loop when a statement of jobDb throws inside it (the database *)
(* is locked, the disk is full). processProjectJobs catches what its try    *)
(* block throws; what its catch block throws leaves the async function as a *)
(* rejection nobody handles, and the lines after the finally block are not  *)
(* run. Where the host ends the process on an unhandled rejection, that     *)
(* step is Crash.                                                            *)

\* error.message of the error the store throws
StoreErrorMessage == "database is locked"

\* the callback at the head of the queue runs and getNextJobForProject, or
\* updateJobStatus(job.id, 'running'), throws: currentJobId is still null, so
\* the catch block does nothing, and the next pass is scheduled
RunImmediateFails ==
    /\ immediates # <<>>
    /\ storeFaults < MaxFaults
    /\ LET cb == Head(immediates)
           p == cb.project
           pw == IF cb.fn = "startProjectWorker" /\ p \notin DOMAIN projectWorkers
                 THEN mapSet(projectWorkers, p, newWorker)
                 ELSE projectWorkers
       IN /\ cb.fn = "startProjectWorker" => p \notin DOMAIN projectWorkers
          /\ mayProcess(pw, p, isShuttingDown)
          /\ projectWorkers' = [pw EXCEPT ![p] = newWorker]
          /\ immediates' = Append(Tail(immediates),
                                  [fn |-> "processProjectJobs", project |-> p])
    /\ storeFaults' = storeFaults + 1
    /\ emitted' = <<>>
    /\ UNCHANGED <<jobs, nextId, clock, isShuttingDown, started, pollTimer,
                   cleanupInterval, recoveryInterval, execs, shutdownState,
                   shutdownWaits, crashes, maxConcurrentProjects>>
    /\ UNCHANGED <<adapterVars, thrown, hostVars>>

\* the process of e closes and the statement that records the outcome throws.
\* After a success updateJobStatus(job.id, 'completed') throws and the catch
\* block records the job as failed with the store's message, unless that
\* statement throws `again`; after a failure updateJobStatus(jobId, 'failed')
\* of the catch block is the one that throws. A throw inside the catch block
\* runs the finally block and then leaves processProjectJobs.
ProcessExitFails ==
    /\ storeFaults < MaxFaults
    /\ \E e \in execs, ok \in BOOLEAN, again \in BOOLEAN :
          /\ ~ok => again
          /\ IF again
             THEN LET sd == settleShutdown(shutdownState, shutdownWaits, e.job, ok)
                  IN /\ projectWorkers' = [projectWorkers EXCEPT ![e.project] = newWorker]
                     /\ execs' = execs \ {e}
                     /\ shutdownState' = sd.state
                     /\ shutdownWaits' = sd.waits
                     /\ emitted' = <<>>
                     /\ UNCHANGED <<jobs, immediates>>
             ELSE /\ workerResumes(e, FALSE, StoreErrorMessage)
                  /\ emitted' = settledEvents(e, FALSE)
    /\ storeFaults' = storeFaults + 1
    /\ UNCHANGED <<nextId, clock, isShuttingDown, started, pollTimer,
                   cleanupInterval, recoveryInterval, crashes, maxConcurrentProjects>>
    /\ UNCHANGED <<adapterVars, thrown, hostVars>>

NextWorkerFaults ==
    \/ AddJob
    \/ Start
    \/ Poll
    \/ RunImmediate
    \/ RunImmediateFails
    \/ ProcessExit
    \/ ProcessExitFails
    \/ Crash

\* the workers over a store whose statements may throw inside the worker loop
SpecWorkerFaults == Init /\ [][NextWorkerFaults]_vars

(* ----------------------------------------------------------------- claims *)

running(i) == jobs[i].status = "running"

\* the jobs for which the step emits job-started (a claim that was set running
\* and handed to executeJob)
startedNow == {emitted'[k].job : k \in {n \in 1..Len(emitted') :
                                          emitted'[n].type = "job-started"}}

\* C1: at most one job with a given non-null sessionId is running, system-wide
\* (also when the two jobs belong to different projects).
C1_SessionExclusive ==
    \A i, j \in Ids :
       (i # j /\ running(i) /\ running(j) /\ jobs[i].session # NoSession)
          => jobs[i].session # jobs[j].session

\* C2: for every project at most one job has status running, also after a
\* crash and restart that left a job recorded as running.
C2_ProjectSerial ==
    \A p \in Projects : Cardinality({i \in Ids : jobs[i].project = p /\ running(i)}) <= 1

\* C3: no two processes execute jobs of the same project at once; an execution
\* of a project starts only when the project has none in flight, and the
\* step in which an execution settles writes its job's terminal status.
C3_OneProcessPerProject ==
    [][/\ \A e, f \in execs' : e.project = f.project => e = f
       /\ \A e \in execs' \ execs : \A f \in execs : f.project # e.project
       /\ crashes' = crashes =>
             \A e \in execs \ execs' :
                e.job \in DOMAIN jobs' => jobs'[e.job].status \in {"completed", "failed"}
      ]_vars

\* a project runs a job after an earlier job of it has run and settled
C3_Witness ==
    \E e \in execs, i \in Ids :
       /\ i # e.job
       /\ jobs[i].project = e.project
       /\ jobs[i].status \in {"completed", "failed"}
       /\ jobs[i].startedAt # NoTime

\* C4: a job returned by claimNext is running in the store when the claim step
\* ends, and no job is claimed while an earlier execution of it is in flight.
C4_NoDoubleClaim ==
    [][\A j \in startedNow :
          /\ jobs'[j].status = "running"
          /\ \A e \in execs : e.job # j
      ]_vars

\* a job is running and in flight while its project has more pending work, the
\* poll timer is armed and a setImmediate callback is queued
C4_Witness ==
    \E e \in execs :
       /\ running(e.job)
       /\ \E i \in Ids : jobs[i].project = e.project /\ jobs[i].status = "pending"
       /\ pollTimer
       /\ immediates # <<>>

\* C5: the number of project workers never exceeds the cap.
C5_Cap == Cardinality(DOMAIN projectWorkers) <= maxConcurrentProjects

\* the edges of the status state machine
StatusEdges ==
    {<<"pending", "running">>, <<"running", "completed">>, <<"running", "failed">>,
     <<"failed", "running">>}

\* C6: every change of a job's status follows pending->running,
\* running->completed, running->failed or the retry edge failed->running.
C6_StatusMachine ==
    [][\A i \in Ids \cap DOMAIN jobs' :
          jobs'[i].status # jobs[i].status
             => <<jobs[i].status, jobs'[i].status>> \in StatusEdges
      ]_vars

\* C7: the promise of shutdown() is not resolved while an execution is in
\* flight.
C7_ShutdownWaitsForAll == shutdownState = "resolved" => execs = {}

\* the processProjectJobs callbacks queued with setImmediate
continuations(q) == {k \in 1..Len(q) : q[k].fn = "processProjectJobs"}

\* C8: once shutdown() has been called no job is claimed or set to running,
\* and a worker whose execution settles queues no further claim step.
C8_NoClaimAfterShutdown ==
    [][isShuttingDown =>
          /\ startedNow = {}
          /\ execs' \subseteq execs
          /\ Cardinality(continuations(immediates'))
                <= Cardinality(continuations(immediates))
          /\ \A i \in DOMAIN jobs' :
                jobs'[i].status = "running" => (i \in Ids /\ running(i))
      ]_vars

\* after shutdown a worker was created for a project with pending work (its
\* start was deferred by a submit) and went away without claiming
C8_Witness ==
    /\ isShuttingDown
    /\ immediates = <<>>
    /\ \E p \in DOMAIN projectWorkers :
          /\ ~projectWorkers[p].isRunning
          /\ \E i \in Ids : jobs[i].project = p /\ jobs[i].status = "pending"

\* C9: a recovery sweep (the periodic one, and the one start() makes before
\* its first poll) sets to failed, with the recovery diagnostic, exactly the
\* running jobs started more than the threshold ago and changes no other job.
\* The poll that follows the sweep inside start() may claim jobs: those are
\* the jobs of startedNow.
C9_RecoverySweep ==
    [][(Recover \/ Start) =>
          /\ DOMAIN jobs' = DOMAIN jobs
          /\ \A i \in Ids :
                IF running(i) /\ clock - jobs[i].startedAt > StuckThreshold
                THEN /\ jobs'[i].errorMessage = RecoveryMessage
                     /\ jobs'[i].completedAt = clock
                     /\ i \notin startedNow => jobs'[i].status = "failed"
                ELSE i \notin startedNow => jobs'[i] = jobs[i]
      ]_vars

\* a sweep has failed one job and left a younger running job alone
C9_Witness ==
    \E i, k \in Ids :
       /\ jobs[i].status = "failed"
       /\ jobs[i].errorMessage = RecoveryMessage
       /\ jobs[i].completedAt = clock
       /\ running(k)
       /\ jobs[k].startedAt = clock

\* pending jobs of project p, in state js, that no running job of p shares a
\* session with
eligiblePending(js, p) ==
    {i \in DOMAIN js :
        /\ js[i].project = p
        /\ js[i].status = "pending"
        /\ \A r \in DOMAIN js :
              (js[r].project = p /\ js[r].status = "running" /\ js[r].session # NoSession)
                 => js[r].session # js[i].session}

\* C10: when a project has eligible pending jobs, the job claimed is one of
\* them, none of them has a higher priority, and none of those with the same
\* priority was created earlier.
C10_PriorityFifo ==
    [][\A j \in startedNow :
          LET pend == eligiblePending(jobs, jobs[j].project) IN
          pend # {} =>
             /\ j \in pend
             /\ \A i \in pend :
                   /\ jobs[i].priority <= jobs[j].priority
                   /\ jobs[i].priority = jobs[j].priority
                         => jobs[j].createdAt <= jobs[i].createdAt
      ]_vars

\* B (higher priority, created later) has been claimed while A (created
\* first) of the same project is still pending
C10_Witness ==
    \E a, b \in Ids :
       /\ jobs[a].project = jobs[b].project
       /\ jobs[a].priority < jobs[b].priority
       /\ jobs[a].createdAt < jobs[b].createdAt
       /\ jobs[a].status = "pending"
       /\ running(b)

\* C11: whenever the project has an eligible pending job, the job claimed is
\* a pending one, never a failed one, whatever the failed jobs' priorities and
\* creation times.
C11_PendingBeforeRetry ==
    [][\A j \in startedNow :
          eligiblePending(jobs, jobs[j].project) # {} => jobs[j].status = "pending"
      ]_vars

\* the last step claimed P, which never failed, while F of the same project
\* was failed and had the higher priority
C11_Witness ==
    \E f, q \in Ids :
       /\ jobs[f].project = jobs[q].project
       /\ jobs[f].status = "failed"
       /\ jobs[f].priority > jobs[q].priority
       /\ running(q)
       /\ jobs[q].errorMessage = NoError
       /\ \E k \in 1..Len(emitted) :
             emitted[k].type = "job-started" /\ emitted[k].job = q

\* the project-worker-stopped events the step emits for project p
stoppedNow(p) ==
    {k \in 1..Len(emitted') : /\ emitted'[k].type = "project-worker-stopped"
                              /\ emitted'[k].project = p}

\* C12: a submit for a project without a worker, below the cap, defers the
\* start of a worker, and the deferred start creates it; a worker whose claim
\* returns none is removed with exactly one project-worker-stopped; a worker
\* leaves the active set only that way, and project-worker-stopped is emitted
\* only in a step in which the project's claim returned none.
C12_WorkerLifecycle ==
    [][\A p \in Projects :
          /\ (AddJob /\ jobs'[nextId].project = p /\ p \notin DOMAIN projectWorkers
                 /\ Cardinality(DOMAIN projectWorkers) < maxConcurrentProjects)
                => /\ immediates' # <<>>
                   /\ immediates'[Len(immediates')] =
                         [fn |-> "startProjectWorker", project |-> p]
          /\ (RunImmediate /\ Head(immediates) = [fn |-> "startProjectWorker", project |-> p])
                => (p \in DOMAIN projectWorkers' \/ stoppedNow(p) # {})
          /\ (RunImmediate /\ Head(immediates).project = p /\ ~isShuttingDown
                 /\ (p \in DOMAIN projectWorkers
                       \/ Head(immediates).fn = "startProjectWorker")
                 /\ ~(p \in DOMAIN projectWorkers
                       /\ Head(immediates).fn = "startProjectWorker")
                 /\ candidates(jobs, p) = {})
                => (p \notin DOMAIN projectWorkers' /\ Cardinality(stoppedNow(p)) = 1)
          /\ stoppedNow(p) # {}
                => /\ Cardinality(stoppedNow(p)) = 1
                   /\ p \notin DOMAIN projectWorkers'
                   /\ candidates(jobs', p) = {}
          /\ (p \in DOMAIN projectWorkers /\ p \notin DOMAIN projectWorkers'
                 /\ crashes' = crashes)
                => Cardinality(stoppedNow(p)) = 1
      ]_vars

\* a submitted job of p has run to completion and the last step removed p's
\* worker with a project-worker-stopped event
C12_Witness ==
    \E p \in Projects :
       /\ p \notin DOMAIN projectWorkers
       /\ \E k \in 1..Len(emitted) :
             emitted[k].type = "project-worker-stopped" /\ emitted[k].project = p
       /\ \E i \in Ids : jobs[i].project = p /\ jobs[i].status = "completed"
       /\ \A i \in Ids : jobs[i].project = p => jobs[i].status = "completed"

\* the step in which the adapter run r fails: its body throws, its child
\* reports that it could not be started, or its process closes with a code
\* other than 0
adapterFailsNow(r) ==
    /\ r \in DOMAIN procs'
    /\ \/ r \notin DOMAIN procs /\ procs'[r].phase = "threw"
       \/ r \in DOMAIN procs /\ procs[r].phase = "failing" /\ procs'[r].phase = "errored"
       \/ r \in DOMAIN procs /\ procs[r].phase = "live" /\ procs'[r].phase = "closed"
          /\ procs'[r].code # "0"

\* the job-failed events the step emits for job j
failedNow(j) ==
    {k \in 1..Len(emitted') : emitted'[k].type = "job-failed" /\ emitted'[k].job = j}

\* C13: when the adapter fails while executing job j, the worker records j as
\* failed with the error text, emits exactly one job-failed for it and, outside
\* shutdown, schedules the project's next claim step.
C13_FailureContained ==
    [][\A r \in DOMAIN procs' :
          adapterFailsNow(r) =>
             LET j == procs'[r].job IN
             /\ jobs'[j].status = "failed"
             /\ jobs'[j].errorMessage \in {ExitMessage, SignalMessage, SpawnErrorMessage}
             /\ Cardinality(failedNow(j)) = 1
             /\ ~isShuttingDown =>
                   immediates' = Append(immediates, [fn |-> "processProjectJobs",
                                                     project |-> procs'[r].project])
      ]_vars

\* the rows of project p
rowsOf(js, p) == {i \in DOMAIN js : js[i].project = p}

\* C14: after cleanupOldJobs for a project (for every project, when called
\* without one) the project's completed/failed rows are the RetentionLimit
\* most recently completed of those it had, or all of them if it had no more;
\* its pending and running rows are all kept; no kept row is changed; the
\* rows of the other projects are as before.
C14_RetentionCleanup ==
    [][\A arg \in Projects \cup {NoProject} :
          RetCleanupWith(arg) =>
             /\ DOMAIN jobs' \subseteq DOMAIN jobs
             /\ \A i \in DOMAIN jobs' : jobs'[i] = jobs[i]
             /\ \A p \in Projects :
                   IF arg \in {p, NoProject}
                   THEN LET before == terminalOf(jobs, p)
                            after == terminalOf(jobs', p)
                        IN /\ after \subseteq before
                           /\ Cardinality(after) =
                                 IF Cardinality(before) <= RetentionLimit
                                 THEN Cardinality(before) ELSE RetentionLimit
                           /\ \A a \in after, b \in before \ after :
                                 jobs[a].completedAt >= jobs[b].completedAt
                           /\ rowsOf(jobs, p) \ before \subseteq DOMAIN jobs'
                   ELSE rowsOf(jobs', p) = rowsOf(jobs, p)
      ]_vars

\* a cleanup has deleted the older of two finished jobs of a project and kept
\* the one finished later, beside a job that is pending or running and a
\* project it did not touch
C14_Witness ==
    /\ \E id \in 1..(nextId - 1) : id \notin Ids
    /\ \E i, k \in Ids :
          /\ jobs[i].status \in {"completed", "failed"}
          /\ jobs[i].completedAt = clock /\ clock > 0
          /\ jobs[k].status \in {"pending", "running"}
          /\ jobs[k].project # jobs[i].project
    /\ nextId > RetMaxJobs

\* C15: without shutdown, and with every spawned process exiting, every
\* submitted job is eventually claimed and set to running.
C15_QueuedEventuallyRuns ==
    \A i \in 1..MaxJobs :
       (i \in Ids /\ jobs[i].status = "pending")
          ~> (i \in Ids /\ jobs[i].status # "pending")

\* C16: without shutdown, every job that is failed is eventually claimed
\* again (set to running), also when its project had no worker and no
\* pending or running job when it failed.
C16_FailedEventuallyRetried ==
    \A i \in 1..MaxJobs :
       (i \in Ids /\ jobs[i].status = "failed")
          ~> (i \in Ids /\ jobs[i].status = "running")

\* C17: a submit that returns has inserted exactly one new job, pending, and
\* emitted exactly one job-queued event with its id; a submit whose insert
\* fails throws to the caller, inserts nothing, emits nothing and starts or
\* schedules no worker.
C17_Submit ==
    [][ /\ (nextId' # nextId /\ thrown' = thrown)
           => /\ DOMAIN jobs' = DOMAIN jobs \cup {nextId}
              /\ nextId \notin DOMAIN jobs
              /\ nextId' = nextId + 1
              /\ jobs'[nextId].status = "pending"
              /\ \A i \in DOMAIN jobs : jobs'[i] = jobs[i]
              /\ Len(emitted') = 1
              /\ emitted'[1].type = "job-queued"
              /\ emitted'[1].job = nextId
              /\ emitted'[1].project = jobs'[nextId].project
        /\ (storeFaults' # storeFaults)
           => /\ thrown' = thrown + 1
              /\ jobs' = jobs
              /\ nextId' = nextId
              /\ emitted' = <<>>
              /\ immediates' = immediates
              /\ projectWorkers' = projectWorkers
              /\ execs' = execs
      ]_vars

\* a submit has succeeded (its job is still pending) and another one has
\* failed in the store
C17_Witness ==
    /\ storeFaults > 0
    /\ thrown = storeFaults
    /\ \E i \in Ids : jobs[i].status = "pending"
    /\ Len(emitted) = 1 /\ emitted[1].type = "job-queued"

\* C18: when the process that executes job j has been signalled by abort, the
\* step in which its run settles leaves j failed and emits job-failed; j is
\* not completed by that execution, and every status is one of the four.
C18_AbortSurfacesAsFailed ==
    [][\A r \in DOMAIN procs :
          ( /\ procs[r].signalled
            /\ procs[r].settled = "pending"
            /\ execOf(procs[r]) \in execs
            /\ r \in DOMAIN procs'
            /\ procs'[r].settled # "pending" )
          => /\ procs[r].job \in DOMAIN jobs'
             /\ jobs'[procs[r].job].status = "failed"
             /\ \E k \in 1..Len(emitted') :
                   /\ emitted'[k].type = "job-failed"
                   /\ emitted'[k].job = procs[r].job
             /\ \A i \in DOMAIN jobs' :
                   jobs'[i].status \in {"pending", "running", "completed", "failed"}
      ]_vars

\* C19: abort(key) returns true exactly when a process is registered under
\* key; then that process is signalled and key is absent from the registry
\* afterwards, the other entries staying; otherwise it returns false and
\* changes nothing.
C19_AbortResult ==
    [][\A key \in Keys :
          AbortWith(key)
          => IF key \in DOMAIN registry
             THEN /\ abortReturned' = "true"
                  /\ key \notin DOMAIN registry'
                  /\ DOMAIN registry' = DOMAIN registry \ {key}
                  /\ \A k \in DOMAIN registry' : registry'[k] = registry[k]
                  /\ procs'[registry[key]].signalled
                  /\ \A r \in DOMAIN procs \ {registry[key]} : procs'[r] = procs[r]
                  /\ jobs' = jobs
             ELSE /\ abortReturned' = "false"
                  /\ registry' = registry
                  /\ procs' = procs
                  /\ jobs' = jobs
                  /\ execs' = execs
      ]_vars

\* abort has returned true for a live process: it is signalled, it is not in
\* the registry any more, and its job is still running
C19_Witness ==
    /\ abortReturned = "true"
    /\ \E r \in DOMAIN procs :
          /\ procs[r].signalled
          /\ procs[r].phase = "live"
          /\ \A k \in DOMAIN registry : registry[k] # r
          /\ jobs[procs[r].job].status = "running"

\* C20: a run that is over has settled: resolved exactly when the process
\* exited with code 0, rejected when it exited otherwise (a signal included)
\* and rejected when the process could not be started.
C20_AdapterOutcome ==
    \A r \in DOMAIN procs :
       /\ procs[r].phase \in {"errored", "threw"} => procs[r].settled = "rejected"
       /\ procs[r].phase = "closed"
             => procs[r].settled =
                   IF procs[r].code = "0" THEN "resolved" ELSE "rejected"

\* the positions in em of the events that deliver an output line
lineEvents(em) ==
    {k \in 1..Len(em) :
        /\ em[k].type = "job-output"
        /\ em[k].output \in {"claude-response", "claude-output"}}

\* C21: every output line of a running process produces exactly one output
\* event, when the line is complete: a structured one if the line decodes, a
\* raw-text one otherwise; the lines change no status, and a process that
\* exits with code 0 completes its job whatever it printed.
C21_OneEventPerLine ==
    [][/\ \A r \in DOMAIN procs, line \in OutputLines, part \in Parts :
             AdapterData(r, line, part)
             => /\ jobs' = jobs
                /\ IF part = "head"
                   THEN lineEvents(emitted') = {}
                   ELSE /\ Cardinality(lineEvents(emitted')) = 1
                        /\ \A k \in lineEvents(emitted') :
                              /\ emitted'[k].job = procs[r].job
                              /\ emitted'[k].output =
                                    IF line.json THEN "claude-response"
                                    ELSE "claude-output"
       /\ \A r \in DOMAIN procs :
             ( /\ procs[r].phase = "live"
               /\ procs[r].settled = "pending"
               /\ execOf(procs[r]) \in execs
               /\ r \in DOMAIN procs'
               /\ procs'[r].phase = "closed"
               /\ procs'[r].code = "0" )
             => jobs'[procs[r].job].status = "completed"
      ]_vars

\* the positions in em of the session-created messages
sessionEvents(em) ==
    {k \in 1..Len(em) :
        em[k].type = "job-output" /\ em[k].output = "session-created"}

\* C22: a process started without a session id announces its session exactly
\* once: in the step that completes its first record carrying a session id,
\* and before that record's own output event; no other step emits the
\* announcement, and a process started with a session id never does.
C22_SessionEstablishedOnce ==
    [][/\ \A r \in DOMAIN procs, line \in OutputLines, part \in Parts :
             AdapterData(r, line, part)
             => IF /\ procs[r].input = NoSession
                   /\ procs[r].captured = NoSession
                   /\ line.json /\ line.session # NoSession
                   /\ part \in {"whole", "tail"}
                THEN /\ Len(emitted') = 2
                     /\ emitted'[1].output = "session-created"
                     /\ emitted'[2].output = "claude-response"
                     /\ procs'[r].captured = line.session
                ELSE sessionEvents(emitted') = {}
       /\ (~ \E r \in DOMAIN procs, line \in OutputLines, part \in Parts :
               AdapterData(r, line, part))
             => sessionEvents(emitted') = {}
      ]_vars

\* C23: when a run has settled, by success, non-zero exit, forced termination
\* or spawn failure, nothing is left of the temporary files and directory it
\* created, unless their removal itself failed; and a removal that failed
\* leaves the outcome decided by the exit code.
C23_ArtifactsReleased ==
    \A r \in DOMAIN procs :
       /\ procs[r].settled # "pending" => artifacts[r] \subseteq Undeletable
       /\ procs[r].phase = "closed"
             => procs[r].settled =
                   IF procs[r].code = "0" THEN "resolved" ELSE "rejected"

\* C24: when the process of job j cannot be started, j becomes failed in the
\* step that reports the spawn failure and was not in running status before.
C24_NoRunningWindow ==
    [][\A r \in DOMAIN procs :
          ( /\ procs[r].phase = "failing"
            /\ procs[r].settled = "pending"
            /\ execOf(procs[r]) \in execs
            /\ r \in DOMAIN procs'
            /\ procs'[r].phase = "errored" )
          => /\ jobs'[procs[r].job].status = "failed"
             /\ jobs[procs[r].job].status # "running"
      ]_vars

\* C25: a store error inside submit or inside the status query reaches the
\* caller as a thrown error; a store error inside a poll cycle is caught and
\* logged there.
C25_StorageErrorsPropagate ==
    [][/\ (AddJobFails \/ GetJobStatusFails) => thrown' = thrown + 1
       /\ PollFails => thrown' = thrown
      ]_vars

\* job j of project p passes the session filter: its session is null, or no
\* running job of p has its session
passesFilter(j, p) ==
    /\ jobs[j].project = p
    /\ jobs[j].status \in {"pending", "failed"}
    /\ \/ jobs[j].session = NoSession
       \/ ~ \E k \in Ids : /\ jobs[k].project = p
                           /\ jobs[k].status = "running"
                           /\ jobs[k].session = jobs[j].session

\* C26: the claim query changes no job record; the job it returns is a
\* pending or failed job of the project whose session is null or is not the
\* session of a running job of that project; it returns none exactly when no
\* pending or failed job of the project passes that filter.
C26_ClaimNextReadOnly ==
    [][\A p \in Projects :
          StoreQuery(p)
          => /\ jobs' = jobs
             /\ \A j \in returned'.jobs : j \in Ids /\ passesFilter(j, p)
             /\ Cardinality(returned'.jobs) <= 1
             /\ (returned'.jobs = {}) <=> ~ \E j \in Ids : passesFilter(j, p)
      ]_vars

\* the query has returned a job of null session for a project in which a job
\* of a session is running, so that the filter was in force
C26_Witness ==
    /\ returned.op = "getNextJobForProject"
    /\ \E j \in returned.jobs, k \in Ids :
          /\ jobs[j].session = NoSession
          /\ jobs[j].status \in {"pending", "failed"}
          /\ jobs[k].project \in returned.projects
          /\ jobs[k].status = "running"
          /\ jobs[k].session # NoSession

\* C30: a step that changes a job record changes one record only and leaves
\* its project, session, priority and creation time; to running it sets
\* startedAt and leaves completedAt and errorMessage; to completed or failed
\* it sets completedAt and leaves startedAt; errorMessage becomes the
\* message supplied with a failure and is left as it was without one.
C30_SetStatusFrame ==
    [][\A i \in Ids :
          (i \in DOMAIN jobs' /\ jobs'[i] # jobs[i])
          => /\ \A k \in Ids \ {i} : k \in DOMAIN jobs' /\ jobs'[k] = jobs[k]
             /\ jobs'[i].project = jobs[i].project
             /\ jobs'[i].session = jobs[i].session
             /\ jobs'[i].priority = jobs[i].priority
             /\ jobs'[i].createdAt = jobs[i].createdAt
             /\ jobs'[i].status \in {"running", "completed", "failed"}
             /\ jobs'[i].status = "running"
                   => /\ jobs'[i].startedAt = clock
                      /\ jobs'[i].completedAt = jobs[i].completedAt
                      /\ jobs'[i].errorMessage = jobs[i].errorMessage
             /\ jobs'[i].status \in {"completed", "failed"}
                   => /\ jobs'[i].completedAt = clock
                      /\ jobs'[i].startedAt = jobs[i].startedAt
             /\ jobs'[i].status = "failed" => jobs'[i].errorMessage = ExitMessage
             /\ jobs'[i].status = "completed"
                   => jobs'[i].errorMessage = jobs[i].errorMessage
      ]_vars

\* a job that failed, was claimed again and completed: it is completed, has
\* both times set and still carries the message of its failure
C30_Witness ==
    \E i \in Ids :
       /\ jobs[i].status = "completed"
       /\ jobs[i].errorMessage = ExitMessage
       /\ jobs[i].startedAt # NoTime
       /\ jobs[i].completedAt # NoTime

\* job i is recorded as running and no process executes it
orphaned(i) ==
    /\ i \in Ids
    /\ jobs[i].status = "running"
    /\ \A e \in execs : e.job # i

\* C27: a job left running with no process executing it eventually becomes
\* failed, given that time passes and the recovery sweeps run; no step that
\* leaves it running claims another job of its session in its project.
C27_CrashRepair ==
    /\ \A i \in 1..MaxJobs : orphaned(i) ~> (i \in Ids /\ jobs[i].status = "failed")
    /\ [][\A i \in Ids, j \in startedNow :
             (orphaned(i) /\ i \in DOMAIN jobs' /\ jobs'[i].status = "running"
                /\ j # i /\ j \in Ids /\ jobs[i].session # NoSession
                /\ jobs[j].project = jobs[i].project)
             => jobs[j].session # jobs[i].session
         ]_vars

\* after a crash and a restart a job is still recorded as running without a
\* process, a worker of its project exists, and another job of its session
\* waits in its project
C27_Witness ==
    /\ crashes > 0
    /\ started
    /\ \E i, j \in Ids :
          /\ orphaned(i)
          /\ jobs[i].session # NoSession
          /\ jobs[j].project = jobs[i].project
          /\ jobs[j].session = jobs[i].session
          /\ jobs[j].status = "pending"

\* the positions in em of the jobs-update events
updateEvents(em) == {k \in 1..Len(em) : em[k].type = "jobs-update"}

\* C28: a poll cycle emits one jobs-update event, after it has started its
\* workers, with the active jobs it read and the projects that have a worker
\* then; every project with pending work and no worker has got a worker (or
\* got one that found nothing to claim and stopped) unless the cap is
\* reached; workers are started only for projects with active jobs; the
\* next cycle is scheduled, also when the store throws during the cycle, in
\* which case nothing else happens.
C28_PollCycle ==
    [][/\ (pollTimer /\ ~isShuttingDown /\ updateEvents(emitted') # {})
          => /\ updateEvents(emitted') = {Len(emitted')}
             /\ emitted'[Len(emitted')].activeJobs =
                   {i \in Ids : jobs[i].status \in {"pending", "running"}}
             /\ emitted'[Len(emitted')].activeProjects = DOMAIN projectWorkers'
             /\ \A p \in Projects :
                   ( /\ \E i \in Ids : jobs[i].project = p /\ jobs[i].status = "pending"
                     /\ p \notin DOMAIN projectWorkers )
                   => \/ p \in DOMAIN projectWorkers'
                      \/ stoppedNow(p) # {}
                      \/ Cardinality(DOMAIN projectWorkers') >= maxConcurrentProjects
             /\ \A p \in DOMAIN projectWorkers' \ DOMAIN projectWorkers :
                   \E i \in Ids : /\ jobs[i].project = p
                                  /\ jobs[i].status \in {"pending", "running"}
             /\ pollTimer'
       /\ PollFails
          => /\ pollTimer'
             /\ jobs' = jobs
             /\ projectWorkers' = projectWorkers
             /\ emitted' = <<>>
             /\ thrown' = thrown
       /\ (pollTimer /\ ~isShuttingDown /\ (Poll \/ PollFails)) => pollTimer'
      ]_vars

\* a poll has just started a worker for one project and left the other
\* project, which has pending work too, without one because the cap was
\* reached; an earlier poll failed in the store
C28_Witness ==
    /\ storeFaults > 0
    /\ pollTimer
    /\ updateEvents(emitted) # {}
    /\ \E k \in 1..Len(emitted) : emitted[k].type = "job-started"
    /\ Cardinality(DOMAIN projectWorkers) = maxConcurrentProjects
    /\ \E i \in Ids : /\ jobs[i].status = "pending"
                      /\ jobs[i].project \notin DOMAIN projectWorkers

\* C29: once stop() has been called, no step is a recovery sweep or a
\* retention cleanup, no step emits jobs-update, and no step leaves the poll
\* timer, the recovery interval or the cleanup interval armed.
C29_TimersStopAtShutdown ==
    [][isShuttingDown
          => /\ ~Recover
             /\ ~Cleanup
             /\ updateEvents(emitted') = {}
             /\ ~pollTimer'
             /\ ~recoveryInterval'
             /\ ~cleanupInterval'
      ]_vars

C32_ListActive ==
    [][StoreList =>
          /\ {listed'[a] : a \in DOMAIN listed'}
                = {i \in Ids : jobs[i].status \in {"pending", "running"}}
          /\ \A a, b \in DOMAIN listed' : a # b => listed'[a] # listed'[b]
          /\ \A a, b \in DOMAIN listed' :
                a < b =>
                   LET x == jobs[listed'[a]]
                       y == jobs[listed'[b]]
                   IN \/ x.project < y.project
                      \/ /\ x.project = y.project
                         /\ x.priority > y.priority
                      \/ /\ x.project = y.project
                         /\ x.priority = y.priority
                         /\ x.createdAt <= y.createdAt
          /\ jobs' = jobs
          /\ nextId' = nextId]_vars

\* the list has put a job of higher priority before an older job of its project
C32_Witness ==
    /\ Len(listed) = 2
    /\ listed[1] > listed[2]
    /\ jobs[listed[1]].project = jobs[listed[2]].project
    /\ jobs[listed[1]].priority > jobs[listed[2]].priority
    /\ jobs[listed[1]].createdAt > jobs[listed[2]].createdAt

\* C38: a completed job carries no error message (and a failed job the message
\* of its latest failure).
C38_ErrorMessageLatest ==
    \A i \in Ids :
       /\ jobs[i].status = "completed" => jobs[i].errorMessage = NoError
       /\ jobs[i].status = "failed" => jobs[i].errorMessage # NoError

\* C37: while a process executes a job for a worker, the store holds the job
\* with status running: no sweep or cleanup fails or deletes it meanwhile.
C37_StoreAgreesWithExecution ==
    \A e \in execs : e.job \in Ids /\ jobs[e.job].status = "running"

\* C34: the step in which a run settles has sent the run's claude-complete
\* message, and the step that sends claude-complete finds the run unsettled:
\* every run ends with one terminal event, sent before the run settles, on the
\* spawn-failure path as on the others.
C34_TerminalEvent ==
    [][\A r \in DOMAIN procs \cap DOMAIN procs' :
          /\ (procs[r].settled = "pending" /\ procs'[r].settled # "pending")
                => \E k \in DOMAIN emitted' :
                      emitted'[k] = OutputEvent(procs[r].job, procs[r].project,
                                                "claude-complete")
          /\ (procs[r].phase # "closed" /\ procs'[r].phase = "closed")
                => procs[r].settled = "pending"
      ]_vars

\* C35: a job-output event belongs to an execution in flight and none follows
\* the execution's terminal event; job-started is emitted for a job enqueued
\* before, when the project has no execution open; job-completed or job-failed
\* closes the open execution of its job.
C35_EventProtocol ==
    [][\A k \in DOMAIN emitted' :
          LET ev == emitted'[k]
              e == [project |-> ev.project, job |-> ev.job]
          IN /\ ev.type = "job-output"
                   => /\ e \in execs
                      /\ \A m \in 1..(k - 1) :
                            ~(/\ emitted'[m].type \in {"job-completed", "job-failed"}
                              /\ emitted'[m].job = ev.job)
             /\ ev.type = "job-started"
                   => /\ ev.job \in Ids
                      /\ \A x \in execs :
                            x.project = ev.project
                               => \E m \in 1..(k - 1) :
                                     /\ emitted'[m].type \in {"job-completed", "job-failed"}
                                     /\ emitted'[m].job = x.job
             /\ ev.type \in {"job-completed", "job-failed"}
                   => e \in execs /\ e \notin execs'
      ]_vars

\* C33: when the output of a process started without a session id has reported
\* its first session id, the process is registered under that id, so that
\* abortClaudeSession(id) finds it, and its placeholder key is gone; when a
\* process has exited no key of the registry leads to it.
C33_RegistryRekey ==
    [][/\ \A r \in DOMAIN procs, line \in OutputLines, part \in Parts :
             ( /\ AdapterData(r, line, part)
               /\ procs[r].input = NoSession
               /\ procs[r].captured = NoSession
               /\ procs[r].key \in DOMAIN registry
               /\ registry[procs[r].key] = r
               /\ line.json /\ line.session # NoSession
               /\ part \in {"whole", "tail"} )
             => /\ abortClaudeSession(registry', line.session).run = r
                /\ procs[r].key \notin DOMAIN registry'
       /\ \A r \in DOMAIN procs \cap DOMAIN procs' :
             (procs[r].phase # "closed" /\ procs'[r].phase = "closed")
                => \A k \in DOMAIN registry' : registry'[k] # r
      ]_vars

\* C39: every process that has started and has neither exited nor been aborted
\* is in the registry under exactly one key (so no two of them share a key, and
\* killAllActiveClaudeProcesses reaches each of them).
C39_RegistryComplete ==
    \A r \in DOMAIN procs :
       (procs[r].phase = "live" /\ ~procs[r].signalled)
          => Cardinality({k \in DOMAIN registry : registry[k] = r}) = 1

\* C36: outside shutdown every worker in the worker set has an execution in
\* flight or its next claim step scheduled, also after a store statement has
\* thrown inside the worker loop.
C36_NoZombieWorker ==
    ~isShuttingDown =>
       \A p \in DOMAIN projectWorkers :
          \/ \E e \in execs : e.project = p
          \/ \E k \in DOMAIN immediates :
                /\ immediates[k].fn = "processProjectJobs"
                /\ immediates[k].project = p

====
